---- MODULE Spec2Model ----
(***************************************************************************)
(* Model of reachy_mini_gemini_app: the MovementController facade          *)
(* (movements.py), every coroutine followed from its invocation through    *)
(* each suspension point (the worker thread of asyncio.to_thread, the      *)
(* asyncio.sleep between steps) to its return value or exception; the      *)
(* settings web server (web_server.py), the settings file (config.py) and  *)
(* the start-up and shutdown of the application (main.py).                 *)
(*                                                                         *)
(* Units: head angles are degrees; antenna targets are micro-radians       *)
(* (0.5 rad = 500000); durations and sleeps are milliseconds.              *)
(***************************************************************************)
EXTENDS Integers, Sequences, FiniteSets, TLC

VARIABLES
    call,      \* per task: the facade coroutine it runs, with its arguments
    pc,        \* per task: where that coroutine is suspended
    idx,       \* per task: the step whose device call was issued last
    calls,     \* per task: the device calls the coroutine has issued, in order
    returned,  \* per task: how many of those calls have returned
    slept,     \* per task: how many asyncio.sleep pauses have elapsed
    nfail,     \* per task: how many of the returned calls raised
    warnings,  \* per task: the logger.warning records of the coroutine
    result,    \* per task: the returned status string, or the exception type
    inFlight,  \* device commands executing on the robot handle right now
    stop,      \* the stop_event of main.py
    callsAtStop, \* per task: the calls it had issued when stop was set while it
               \* ran, -1 when it was not running then (history)
    \* web_server.py
    _server,     \* the global SettingsServer (port, server, thread), or none
    httpServers, \* ports of the HTTPServers constructed and not shut down
    threads,     \* serving threads started and not ended
    busyPorts,   \* ports another process listens on
    last,        \* the last start / stop call, its result and the state it
                 \* found (history)
    \* config.py
    file,        \* CONFIG_FILE: whether it exists and the JSON object in it
    env,         \* the GOOGLE_API_KEY environment variable
    latest,      \* per key: the value of the most recent successful save that
                 \* contained it (history)
    lastSave,    \* the last save_settings call or POST /api/settings (history)
    \* main.py
    runPc,       \* where run() is
    cli_args,    \* args: the parsed command line
    robot,       \* the ReachyMini that create_robot returned
    attempts,    \* the ReachyMini constructions create_robot made, in order
    conv,        \* run_conversation: its position, handler and pending exception
    events       \* handler and shutdown calls made so far, in order

movementVars ==
    <<call, pc, idx, calls, returned, slept, nfail, warnings, result, inFlight, stop,
      callsAtStop>>

serverVars == <<_server, httpServers, threads, busyPorts, last>>

configVars == <<file, env, latest, lastSave>>

mainVars == <<runPc, cli_args, robot, attempts, conv, events>>

vars == <<movementVars, serverVars, configVars, mainVars>>

-----------------------------------------------------------------------------
(* Bounds of the model.                                                    *)

\* tasks of the event loop that may run facade coroutines side by side
NumTasks == 2
\* the largest repeat count a caller passes (counts are drawn from -1..MaxTimes)
MaxTimes == 10
\* the largest head angle, in degrees, a caller passes
MaxAngle == 50
\* the largest antenna angle, in degrees, a caller passes
MaxAntennaDeg == 180

\* the ports in play, counted from the default port of the settings server
NumPorts == 3

Tasks == 1 .. NumTasks

\* Python's None for an unset head or antennas target
None == <<>>

-----------------------------------------------------------------------------
(* Python built-ins as the code uses them.                                 *)

\* min(a, b): b when b < a, otherwise the first argument
min(a, b) == IF b < a THEN b ELSE a

\* max(a, b): b when b > a, otherwise the first argument
max(a, b) == IF b > a THEN b ELSE a

\* A Python number whose type matters (the repeat counts): ty is "int" or
\* "float", h is twice its value, so that halves are representable.
PyInt(n) == [ty |-> "int", h |-> 2 * n]
PyFloat(twice) == [ty |-> "float", h |-> twice]

\* min and max on such numbers return one of their arguments unchanged, so
\* the result keeps that argument's type.
num_min(a, b) == IF b.h < a.h THEN b ELSE a
num_max(a, b) == IF b.h > a.h THEN b ELSE a

\* range(n) raises TypeError unless n is an int
RangeRaises(n) == n.ty # "int"

\* np.radians: degrees to radians, here micro-radians per degree (pi/180)
MicroRadPerDeg == 17453
radians(deg) == deg * MicroRadPerDeg

\* a literal of the source given in hundredths of a radian, as micro-radians
Rad(hundredths) == hundredths * 10000

\* create_head_pose(roll, pitch, yaw, degrees=True): the orientation the pose
\* matrix encodes
create_head_pose(roll, pitch, yaw) == <<roll, pitch, yaw>>

\* the text of the exception a failing device call raises
DeviceError == "device fault"

-----------------------------------------------------------------------------
(* One step of a coroutine: a device call and the sleep that follows it.   *)

GotoStep(head, antennas, duration, postDelay) ==
    [kind |-> "goto_target", head |-> head, antennas |-> antennas,
     duration |-> duration, postDelay |-> postDelay]

LifecycleStep(kind) ==
    [kind |-> kind, head |-> None, antennas |-> None, duration |-> 0, postDelay |-> 0]

\* What a facade coroutine does when run to completion: it raises before any
\* await, or it logs its warnings, issues its steps in order and returns msg
\* (failMsg when a lifecycle call raised).
Plan(steps, warns, msg) ==
    [raises |-> FALSE, steps |-> steps, warnings |-> warns, msg |-> msg, failMsg |-> msg]

Raises(exc) ==
    [raises |-> TRUE, steps |-> <<>>, warnings |-> <<>>, msg |-> exc, failMsg |-> exc]

-----------------------------------------------------------------------------
(* The facade methods of MovementController.                               *)

poses ==
    [left |-> <<0, 0, 25>>, right |-> <<0, 0, -25>>, up |-> <<0, -20, 0>>,
     down |-> <<0, 20, 0>>, center |-> <<0, 0, 0>>]

\* (variant: the fallback keeps the caller's name in the message and logs nothing)
move_head_echoes_direction(direction, duration) ==
    LET known == direction \in DOMAIN poses
        p == poses[IF known THEN direction ELSE "center"]
    IN  Plan(<<GotoStep(create_head_pose(p[1], p[2], p[3]), None, duration, 0)>>,
             <<>>,
             "Moved head " \o direction)

move_head(direction, duration) ==
    LET known == direction \in DOMAIN poses
        dir == IF known THEN direction ELSE "center"
        p == poses[dir]
    IN  Plan(<<GotoStep(create_head_pose(p[1], p[2], p[3]), None, duration, 0)>>,
             IF known THEN <<>>
             ELSE <<"Unknown direction: " \o direction \o ", using center">>,
             "Moved head " \o dir)

RollLimit == 30
PitchLimit == 30
YawLimit == 45

\* (variant: the upper bound is not applied)
clamp_lower_only(value, lo, hi) == max(lo, value)

\* the clamp of move_head_precise: max(lo, min(hi, value))
clamp(value, lo, hi) == max(lo, min(hi, value))

\* (variant: the clamped values are sent, the caller's values are reported)
move_head_precise_reports_input(roll0, pitch0, yaw0, duration) ==
    LET roll == max(-RollLimit, min(RollLimit, roll0))
        pitch == max(-PitchLimit, min(PitchLimit, pitch0))
        yaw == max(-YawLimit, min(YawLimit, yaw0))
    IN  Plan(<<GotoStep(create_head_pose(roll, pitch, yaw), None, duration, 0)>>,
             <<>>,
             "Moved head to roll=" \o ToString(roll0) \o ", pitch=" \o ToString(pitch0)
                 \o ", yaw=" \o ToString(yaw0))

move_head_precise(roll0, pitch0, yaw0, duration) ==
    LET roll == clamp(roll0, -RollLimit, RollLimit)
        pitch == clamp(pitch0, -PitchLimit, PitchLimit)
        yaw == clamp(yaw0, -YawLimit, YawLimit)
    IN  Plan(<<GotoStep(create_head_pose(roll, pitch, yaw), None, duration, 0)>>,
             <<>>,
             "Moved head to roll=" \o ToString(roll) \o ", pitch=" \o ToString(pitch)
                 \o ", yaw=" \o ToString(yaw))

AntennaLimit == 1570000

\* (variant: the converted angles are sent without the clamp)
move_antennas_unclamped(right_angle, left_angle, duration) ==
    Plan(<<GotoStep(None, <<radians(right_angle), radians(left_angle)>>, duration, 0)>>,
         <<>>,
         "Moved antennas to right=" \o ToString(right_angle) \o ", left="
             \o ToString(left_angle) \o " degrees")

move_antennas(right_angle, left_angle, duration) ==
    LET right_rad == max(-AntennaLimit, min(AntennaLimit, radians(right_angle)))
        left_rad == max(-AntennaLimit, min(AntennaLimit, radians(left_angle)))
    IN  Plan(<<GotoStep(None, <<right_rad, left_rad>>, duration, 0)>>,
             <<>>,
             "Moved antennas to right=" \o ToString(right_angle) \o ", left="
                 \o ToString(left_angle) \o " degrees")

expressions ==
    [neutral |-> <<0, 0>>, alert |-> <<Rad(80), -Rad(80)>>,
     droopy |-> <<-Rad(100), Rad(100)>>, asymmetric |-> <<Rad(50), Rad(20)>>,
     perky |-> <<Rad(100), -Rad(100)>>]

\* (variant: the fallback keeps the caller's name in the message)
antenna_expression_echoes_name(expression0) ==
    LET expression == IF expression0 \in DOMAIN expressions THEN expression0 ELSE "neutral"
    IN  Plan(<<GotoStep(None, expressions[expression], 300, 0)>>,
             <<>>,
             "Set antennas to " \o expression0)

antenna_expression(expression0) ==
    LET expression == IF expression0 \in DOMAIN expressions THEN expression0 ELSE "neutral"
    IN  Plan(<<GotoStep(None, expressions[expression], 300, 0)>>,
             <<>>,
             "Set antennas to " \o expression)

\* for _ in range(n): the loop body, n times over
RECURSIVE Repeat(_, _)
Repeat(body, n) == IF n <= 0 THEN <<>> ELSE body \o Repeat(body, n - 1)

\* (variant: the count is bounded below only)
nod_yes_uncapped(times0) ==
    LET times == num_max(PyInt(1), times0)
        n == times.h \div 2
    IN  IF RangeRaises(times) THEN Raises("TypeError")
        ELSE Plan(Repeat(<<GotoStep(create_head_pose(0, 15, 0), None, 150, 100),
                           GotoStep(create_head_pose(0, -10, 0), None, 150, 100)>>, n)
                      \o <<GotoStep(create_head_pose(0, 0, 0), None, 200, 0)>>,
                  <<>>,
                  "Nodded yes " \o ToString(n) \o " times")

nod_yes(times0) ==
    LET times == num_max(PyInt(1), num_min(PyInt(5), times0))
        n == times.h \div 2
    IN  IF RangeRaises(times) THEN Raises("TypeError")
        ELSE Plan(Repeat(<<GotoStep(create_head_pose(0, 15, 0), None, 150, 100),
                           GotoStep(create_head_pose(0, -10, 0), None, 150, 100)>>, n)
                      \o <<GotoStep(create_head_pose(0, 0, 0), None, 200, 0)>>,
                  <<>>,
                  "Nodded yes " \o ToString(n) \o " times")

\* (variant: the head is left where the last shake put it)
shake_no_without_center(times0) ==
    LET times == num_max(PyInt(1), num_min(PyInt(5), times0))
        n == times.h \div 2
    IN  IF RangeRaises(times) THEN Raises("TypeError")
        ELSE Plan(Repeat(<<GotoStep(create_head_pose(0, 0, 20), None, 150, 50),
                           GotoStep(create_head_pose(0, 0, -20), None, 150, 50)>>, n),
                  <<>>,
                  "Shook head no " \o ToString(n) \o " times")

shake_no(times0) ==
    LET times == num_max(PyInt(1), num_min(PyInt(5), times0))
        n == times.h \div 2
    IN  IF RangeRaises(times) THEN Raises("TypeError")
        ELSE Plan(Repeat(<<GotoStep(create_head_pose(0, 0, 20), None, 150, 50),
                           GotoStep(create_head_pose(0, 0, -20), None, 150, 50)>>, n)
                      \o <<GotoStep(create_head_pose(0, 0, 0), None, 200, 0)>>,
                  <<>>,
                  "Shook head no " \o ToString(n) \o " times")

\* (variant: the tilt also resets the antennas)
tilt_head_with_antennas(direction, angle0) ==
    LET angle == max(5, min(30, angle0))
        roll == IF direction = "left" THEN angle ELSE -angle
    IN  Plan(<<GotoStep(create_head_pose(roll, 0, 0), <<0, 0>>, 400, 0)>>,
             <<>>,
             "Tilted head " \o direction)

tilt_head(direction, angle0) ==
    LET angle == max(5, min(30, angle0))
        roll == IF direction = "left" THEN angle ELSE -angle
    IN  Plan(<<GotoStep(create_head_pose(roll, 0, 0), None, 400, 0)>>,
             <<>>,
             "Tilted head " \o direction)

look_at_camera ==
    Plan(<<GotoStep(create_head_pose(0, 0, 0), <<0, 0>>, 300, 0)>>, <<>>,
         "Looking at camera")

\* (variant: the failure of the device call is not reported)
wake_up_unreported ==
    [raises |-> FALSE, steps |-> <<LifecycleStep("wake_up")>>, warnings |-> <<>>,
     msg |-> "Woke up and ready!", failMsg |-> "Woke up and ready!"]

wake_up ==
    [raises |-> FALSE, steps |-> <<LifecycleStep("wake_up")>>, warnings |-> <<>>,
     msg |-> "Woke up and ready!", failMsg |-> "Wake up failed: " \o DeviceError]

go_to_sleep ==
    [raises |-> FALSE, steps |-> <<LifecycleStep("goto_sleep")>>, warnings |-> <<>>,
     msg |-> "Going to sleep...", failMsg |-> "Sleep failed: " \o DeviceError]

\* (variant: the expression ends with a return to the neutral pose)
_happy_expression_then_reset ==
    <<GotoStep(create_head_pose(15, 0, 0), <<Rad(50), -Rad(50)>>, 200, 150),
      GotoStep(create_head_pose(-15, 0, 0), <<-Rad(50), Rad(50)>>, 200, 150),
      GotoStep(create_head_pose(0, 0, 0), <<Rad(30), -Rad(30)>>, 200, 150),
      GotoStep(create_head_pose(0, 0, 0), <<0, 0>>, 200, 0)>>

_happy_expression ==
    <<GotoStep(create_head_pose(15, 0, 0), <<Rad(50), -Rad(50)>>, 200, 150),
      GotoStep(create_head_pose(-15, 0, 0), <<-Rad(50), Rad(50)>>, 200, 150),
      GotoStep(create_head_pose(0, 0, 0), <<Rad(30), -Rad(30)>>, 200, 0)>>

_sad_expression ==
    <<GotoStep(create_head_pose(0, 25, 0), <<-Rad(120), Rad(120)>>, 800, 800),
      GotoStep(create_head_pose(0, 5, 0), <<-Rad(30), Rad(30)>>, 500, 0)>>

_surprised_expression ==
    <<GotoStep(create_head_pose(0, -20, 0), <<Rad(100), -Rad(100)>>, 120, 400),
      GotoStep(create_head_pose(0, 0, 0), <<Rad(30), -Rad(30)>>, 300, 0)>>

_curious_expression ==
    <<GotoStep(create_head_pose(20, -10, 0), <<Rad(60), Rad(10)>>, 400, 500),
      GotoStep(create_head_pose(0, 0, 0), <<0, 0>>, 300, 0)>>

_excited_expression ==
    Repeat(<<GotoStep(create_head_pose(0, -10, 0), <<Rad(80), -Rad(80)>>, 100, 80),
             GotoStep(create_head_pose(0, 5, 0), <<-Rad(20), Rad(20)>>, 100, 80)>>, 3)
        \o <<GotoStep(create_head_pose(0, 0, 0), <<Rad(50), -Rad(50)>>, 200, 0)>>

_sleepy_expression ==
    <<GotoStep(create_head_pose(8, 25, 0), <<-Rad(130), Rad(130)>>, 1200, 500),
      GotoStep(create_head_pose(8, 30, 0), None, 300, 300),
      GotoStep(create_head_pose(0, 15, 0), <<-Rad(80), Rad(80)>>, 400, 0)>>

_confused_expression ==
    <<GotoStep(create_head_pose(15, -5, 0), <<Rad(40), Rad(60)>>, 300, 300),
      GotoStep(create_head_pose(-15, -5, 0), <<Rad(60), Rad(40)>>, 300, 300),
      GotoStep(create_head_pose(8, 0, 0), <<Rad(20), Rad(40)>>, 250, 0)>>

_angry_expression ==
    <<GotoStep(create_head_pose(0, 10, 0), <<Rad(80), -Rad(80)>>, 200, 200),
      GotoStep(create_head_pose(0, 10, 10), None, 100, 100),
      GotoStep(create_head_pose(0, 10, -10), None, 100, 100),
      GotoStep(create_head_pose(0, 5, 0), <<Rad(50), -Rad(50)>>, 200, 0)>>

_love_expression ==
    <<GotoStep(create_head_pose(12, -8, 0), <<Rad(40), -Rad(40)>>, 500, 400),
      GotoStep(create_head_pose(-12, -8, 0), <<-Rad(40), Rad(40)>>, 500, 400),
      GotoStep(create_head_pose(0, 0, 0), <<Rad(20), -Rad(20)>>, 300, 0)>>

emotion_methods ==
    [happy |-> _happy_expression, sad |-> _sad_expression,
     surprised |-> _surprised_expression, curious |-> _curious_expression,
     excited |-> _excited_expression, sleepy |-> _sleepy_expression,
     confused |-> _confused_expression, angry |-> _angry_expression,
     love |-> _love_expression]

\* (variant: an unknown name falls back to a neutral pose)
express_emotion_default(emotion) ==
    IF emotion \in DOMAIN emotion_methods
    THEN Plan(emotion_methods[emotion], <<>>, "Expressed " \o emotion)
    ELSE Plan(<<GotoStep(create_head_pose(0, 0, 0), <<0, 0>>, 300, 0)>>,
              <<"Unknown emotion: " \o emotion>>, "Expressed neutral")

express_emotion(emotion) ==
    IF emotion \in DOMAIN emotion_methods
    THEN Plan(emotion_methods[emotion], <<>>, "Expressed " \o emotion)
    ELSE Plan(<<>>, <<"Unknown emotion: " \o emotion>>, "Unknown emotion: " \o emotion)

\* (variant: every style but "silly" and "default" is refused)
do_dance_refuses_unknown(style) ==
    IF style \in {"silly", "default"}
    THEN Plan((IF style = "silly"
               THEN Repeat(<<GotoStep(create_head_pose(25, 0, 15), <<Rad(100), 0>>, 200, 150),
                             GotoStep(create_head_pose(-25, 0, -15), <<0, -Rad(100)>>, 200, 150)>>, 2)
               ELSE Repeat(<<GotoStep(create_head_pose(15, -5, 0), <<Rad(60), -Rad(60)>>, 150, 100),
                             GotoStep(create_head_pose(-15, -5, 0), <<-Rad(60), Rad(60)>>, 150, 100)>>, 3))
                  \o <<GotoStep(create_head_pose(0, 0, 0), <<0, 0>>, 250, 0)>>,
              <<>>,
              "Finished " \o style \o " dance")
    ELSE Plan(<<>>, <<"Unknown style: " \o style>>, "Unknown style: " \o style)

do_dance(style) ==
    Plan((IF style = "silly"
          THEN Repeat(<<GotoStep(create_head_pose(25, 0, 15), <<Rad(100), 0>>, 200, 150),
                        GotoStep(create_head_pose(-25, 0, -15), <<0, -Rad(100)>>, 200, 150)>>, 2)
          ELSE Repeat(<<GotoStep(create_head_pose(15, -5, 0), <<Rad(60), -Rad(60)>>, 150, 100),
                        GotoStep(create_head_pose(-15, -5, 0), <<-Rad(60), Rad(60)>>, 150, 100)>>, 3))
             \o <<GotoStep(create_head_pose(0, 0, 0), <<0, 0>>, 250, 0)>>,
         <<>>,
         "Finished " \o style \o " dance")

reset_position ==
    Plan(<<GotoStep(create_head_pose(0, 0, 0), <<0, 0>>, 500, 0)>>, <<>>,
         "Reset to neutral position")

-----------------------------------------------------------------------------
(* The settings web server (web_server.py).                                *)

\* Default port for the settings server
DEFAULT_PORT == 8042

\* the ports callers pass, and other processes occupy
Ports == DEFAULT_PORT .. DEFAULT_PORT + NumPorts - 1

Range(s) == {s[i] : i \in DOMAIN s}

\* _server = None
NoSettingsServer ==
    [isNone |-> TRUE, port |-> 0, server |-> "None", thread |-> "None"]

\* SettingsServer.__init__(port)
SettingsServer_init(port) ==
    [isNone |-> FALSE, port |-> port, server |-> "None", thread |-> "None"]

\* SettingsServer.get_url
get_url(self) == "http://0.0.0.0:" \o ToString(self.port)

\* HTTPServer(("0.0.0.0", port), SettingsHandler) binds the port and listens,
\* or raises OSError when the port is in use
HTTPServer(port, inUse) == IF port \in inUse THEN "OSError" ELSE "HTTPServer"

\* SettingsServer.start: the object afterwards, the ports bound and the threads
\* started by the call, and the URL returned or the exception raised
SettingsServer_start(self, inUse) ==
    IF self.server # "None"
    THEN [self |-> self, bound |-> <<>>, started |-> 0, ret |-> get_url(self)]
    ELSE IF HTTPServer(self.port, inUse) = "OSError"
         THEN [self |-> self, bound |-> <<>>, started |-> 0, ret |-> "OSError"]
         ELSE [self |-> [self EXCEPT !.server = "HTTPServer", !.thread = "Thread"],
               bound |-> <<self.port>>, started |-> 1, ret |-> get_url(self)]

\* (variant: stop forgets only the server)
SettingsServer_stop_keeps_thread(self) ==
    IF self.server # "None"
    THEN [self |-> [self EXCEPT !.server = "None"], shutdown |-> TRUE]
    ELSE [self |-> self, shutdown |-> FALSE]

\* SettingsServer.stop: the object afterwards, and whether server.shutdown()
\* ran (the serving thread leaves serve_forever and ends; the HTTPServer, no
\* longer referenced, is released)
SettingsServer_stop(self) ==
    IF self.server # "None"
    THEN [self |-> [self EXCEPT !.server = "None", !.thread = "None"],
          shutdown |-> TRUE]
    ELSE [self |-> self, shutdown |-> FALSE]

InitServer ==
    /\ _server = NoSettingsServer
    /\ httpServers = <<>>
    /\ threads = 0
    /\ busyPorts = {}
    /\ last = [op |-> "none", port |-> 0, ret |-> "",
               before |-> [server |-> "None", port |-> 0,
                           httpServers |-> <<>>, threads |-> 0]]

\* start() runs on object self for a call named op that was given port
RunStart(self, op, port) ==
    LET r == SettingsServer_start(self, busyPorts \cup Range(httpServers)) IN
    /\ _server' = r.self
    /\ httpServers' = httpServers \o r.bound
    /\ threads' = threads + r.started
    /\ last' = [op |-> op, port |-> port, ret |-> r.ret,
                before |-> [server |-> self.server, port |-> self.port,
                            httpServers |-> httpServers, threads |-> threads]]
    /\ UNCHANGED <<busyPorts, movementVars, configVars, mainVars>>

\* stop() runs on the global object for a call named op; the global keeps the
\* object or is set to None afterwards
RunStop(op, forget) ==
    LET r == SettingsServer_stop(_server) IN
    /\ _server' = IF forget THEN NoSettingsServer ELSE r.self
    /\ httpServers' = IF r.shutdown
                      THEN SelectSeq(httpServers, LAMBDA q : q # _server.port)
                      ELSE httpServers
    /\ threads' = IF r.shutdown THEN threads - 1 ELSE threads
    /\ last' = [op |-> op, port |-> _server.port, ret |-> "None",
                before |-> [server |-> _server.server, port |-> _server.port,
                            httpServers |-> httpServers, threads |-> threads]]
    /\ UNCHANGED <<busyPorts, movementVars, configVars, mainVars>>

\* start_settings_server(port)
start_settings_server(port) ==
    RunStart(IF _server.isNone THEN SettingsServer_init(port) ELSE _server,
             "start_settings_server", port)

\* stop_settings_server()
stop_settings_server ==
    IF ~_server.isNone
    THEN RunStop("stop_settings_server", TRUE)
    ELSE /\ last' = [op |-> "stop_settings_server", port |-> 0, ret |-> "None",
                     before |-> [server |-> "None", port |-> 0,
                                 httpServers |-> httpServers, threads |-> threads]]
         /\ UNCHANGED <<_server, httpServers, threads, busyPorts>>
         /\ UNCHANGED <<movementVars, configVars, mainVars>>

\* start() called on the SettingsServer itself
Call_SettingsServer_start ==
    /\ ~_server.isNone
    /\ RunStart(_server, "start", _server.port)

\* stop() called on the SettingsServer itself
Call_SettingsServer_stop ==
    /\ ~_server.isNone
    /\ RunStop("stop", FALSE)

\* another process starts to listen on a port that is free
PortTaken(p) ==
    /\ p \notin busyPorts \cup Range(httpServers)
    /\ busyPorts' = busyPorts \cup {p}
    /\ UNCHANGED <<_server, httpServers, threads, last>>
    /\ UNCHANGED <<movementVars, configVars, mainVars>>

\* the other process gives its port up
PortFreed(p) ==
    /\ p \in busyPorts
    /\ busyPorts' = busyPorts \ {p}
    /\ UNCHANGED <<_server, httpServers, threads, last>>
    /\ UNCHANGED <<movementVars, configVars, mainVars>>

NextServer ==
    \/ \E p \in Ports : start_settings_server(p)
    \/ stop_settings_server
    \/ Call_SettingsServer_start
    \/ Call_SettingsServer_stop
    \/ \E p \in Ports : PortTaken(p)
    \/ \E p \in Ports : PortFreed(p)

-----------------------------------------------------------------------------
(* The settings file (config.py) and POST /api/settings (web_server.py).   *)

\* a Python value: its type and its repr
PyValue(ty, v) == [ty |-> ty, v |-> v]

PyNone == PyValue("NoneType", "None")

\* what a dict holds for a key it does not contain
Absent == PyValue("absent", "")

\* a JSON value as written in the file or in a request body: its kind (null,
\* true, false, string, int, real) and its text
Json(j, text) == [j |-> j, text |-> text]

\* what a JSON object holds for a member it does not have
Missing == Json("missing", "")

\* json.dump of one value
json_dumps(x) ==
    CASE x.ty = "NoneType" -> Json("null", "null")
      [] x.ty = "bool" -> IF x.v = "True" THEN Json("true", "true")
                                          ELSE Json("false", "false")
      [] x.ty = "str" -> Json("string", x.v)
      [] x.ty = "float" -> Json("real", x.v)
      [] OTHER -> Json("int", x.v)

\* json.load of one value
json_loads(y) ==
    CASE y.j = "null" -> PyNone
      [] y.j = "true" -> PyValue("bool", "True")
      [] y.j = "false" -> PyValue("bool", "False")
      [] y.j = "string" -> PyValue("str", y.text)
      [] y.j = "real" -> PyValue("float", y.text)
      [] OTHER -> PyValue("int", y.text)

\* the settings keys followed (three of the eleven of DEFAULT_SETTINGS)
SettingKeys == {"api_key", "use_camera", "mic_gain"}

DEFAULT_SETTINGS ==
    [k \in SettingKeys |->
        CASE k = "api_key" -> PyNone
          [] k = "use_camera" -> PyValue("bool", "True")
          [] k = "mic_gain" -> PyValue("float", "3.0")]

\* json.load of the object in the file, json.dump of a dict
json_load(obj) ==
    [k \in SettingKeys |-> IF obj[k] = Missing THEN Absent ELSE json_loads(obj[k])]

json_dump(d) ==
    [k \in SettingKeys |-> IF d[k] = Absent THEN Missing ELSE json_dumps(d[k])]

\* a.update(b)
dict_update(a, b) == [k \in SettingKeys |-> IF b[k] # Absent THEN b[k] ELSE a[k]]

\* {}
EmptyDict == [k \in SettingKeys |-> Absent]

\* os.environ.get("GOOGLE_API_KEY")
os_environ_get(e) == IF e.set THEN PyValue("str", e.value) ELSE PyNone

\* the truth value Python gives None or a string
truthy(x) == x.ty = "str" /\ x.v # ""

\* load_settings(): the defaults, the environment's API key, then the file
\* without its api_key when the environment has one
load_settings(f, e) ==
    LET env_api_key == os_environ_get(e)
        settings == IF truthy(env_api_key)
                    THEN [DEFAULT_SETTINGS EXCEPT !["api_key"] = env_api_key]
                    ELSE DEFAULT_SETTINGS
        file_settings == json_load(f.obj)
    IN  IF f.exists
        THEN dict_update(settings,
                         IF truthy(env_api_key) /\ file_settings["api_key"] # Absent
                         THEN [file_settings EXCEPT !["api_key"] = Absent]
                         ELSE file_settings)
        ELSE settings

\* (variant: the file is written from the given settings alone)
save_settings_overwrites(f, settings, writable) ==
    IF writable
    THEN [file |-> [exists |-> TRUE, obj |-> json_dump(settings)], ret |-> TRUE]
    ELSE [file |-> f, ret |-> FALSE]

\* save_settings(settings): the file afterwards and the value returned;
\* writable is whether the directory and the file can be opened for writing
\* (otherwise IOError is caught and False returned)
save_settings(f, settings, writable) ==
    LET existing == IF f.exists THEN json_load(f.obj) ELSE EmptyDict IN
    IF writable
    THEN [file |-> [exists |-> TRUE, obj |-> json_dump(dict_update(existing, settings))],
          ret |-> TRUE]
    ELSE [file |-> f, ret |-> FALSE]

\* {k: v for k, v in new_settings.items() if v is not None}
drop_none(new_settings) ==
    [k \in SettingKeys |-> IF new_settings[k] = PyNone THEN Absent ELSE new_settings[k]]

NoFile == [exists |-> FALSE, obj |-> [k \in SettingKeys |-> Missing]]

EnvUnset == [set |-> FALSE, value |-> ""]

InitConfig ==
    /\ file = NoFile
    /\ env = EnvUnset
    /\ latest = EmptyDict
    /\ lastSave = [op |-> "none", given |-> EmptyDict, ok |-> FALSE, status |-> "none"]

\* a successful save becomes, for each key it contains, the most recent one
Remember(settings, ok) ==
    latest' = IF ok THEN dict_update(latest, settings) ELSE latest

\* save_settings(settings) is called
Call_save_settings(settings, writable) ==
    LET r == save_settings(file, settings, writable) IN
    /\ file' = r.file
    /\ Remember(settings, r.ret)
    /\ lastSave' = [op |-> "save_settings", given |-> settings, ok |-> r.ret,
                    status |-> "none"]
    /\ UNCHANGED <<env, movementVars, serverVars, mainVars>>

\* POST /api/settings with a JSON object as body: _handle_post_settings
POST_settings(body, writable) ==
    LET new_settings == drop_none(json_load(body))
        r == save_settings(file, new_settings, writable)
    IN
    /\ file' = r.file
    /\ Remember(new_settings, r.ret)
    /\ lastSave' = [op |-> "POST", given |-> json_load(body), ok |-> r.ret,
                    status |-> IF r.ret THEN "200" ELSE "500"]
    /\ UNCHANGED <<env, movementVars, serverVars, mainVars>>

\* POST /api/settings with a body that is no JSON: json.JSONDecodeError, 400
POST_invalid ==
    /\ lastSave' = [op |-> "POST", given |-> EmptyDict, ok |-> FALSE, status |-> "400"]
    /\ UNCHANGED <<file, env, latest, movementVars, serverVars, mainVars>>

\* the environment the process runs in gets, changes or loses GOOGLE_API_KEY
\* (the launching shell, load_dotenv)
SetEnv(e) ==
    /\ e # env
    /\ env' = e
    /\ UNCHANGED <<file, latest, lastSave, movementVars, serverVars, mainVars>>

\* the dicts callers save
SaveValues(k) ==
    CASE k = "api_key" -> {Absent, PyNone, PyValue("str", "file-key")}
      [] k = "use_camera" -> {Absent, PyValue("bool", "False")}
      [] k = "mic_gain" -> {Absent, PyValue("float", "1.5")}

SaveInputs ==
    {d \in [SettingKeys -> UNION {SaveValues(k) : k \in SettingKeys}] :
        \A k \in SettingKeys : d[k] \in SaveValues(k)}

\* the JSON objects clients post
PostValues(k) ==
    CASE k = "api_key" -> {Missing, Json("null", "null"), Json("string", "file-key")}
      [] k = "use_camera" -> {Missing, Json("null", "null"), Json("false", "false")}
      [] k = "mic_gain" -> {Missing, Json("real", "1.5")}

PostBodies ==
    {b \in [SettingKeys -> UNION {PostValues(k) : k \in SettingKeys}] :
        \A k \in SettingKeys : b[k] \in PostValues(k)}

EnvInputs ==
    {EnvUnset, [set |-> TRUE, value |-> ""], [set |-> TRUE, value |-> "env-key"]}

NextConfig ==
    \/ \E d \in SaveInputs, w \in BOOLEAN : Call_save_settings(d, w)
    \/ \E b \in PostBodies, w \in BOOLEAN : POST_settings(b, w)
    \/ POST_invalid
    \/ \E e \in EnvInputs : SetEnv(e)

-----------------------------------------------------------------------------
(* Start-up and shutdown of the application (main.py).                     *)

\* need_media = args.robot_audio or not args.no_camera
need_media(a) == a.robot_audio \/ ~a.no_camera

\* (variant: the preference order turned round)
backends_default_first == <<"default", "webrtc", "gstreamer">>

\* backends = ["gstreamer", "webrtc", "default"]
backends == <<"gstreamer", "webrtc", "default">>

\* str(b) of a Python bool
PyBoolStr(b) == IF b THEN "True" ELSE "False"

\* The ReachyMini construction create_robot makes after n earlier ones have
\* failed: its media_backend and localhost_only arguments ("default" when the
\* argument is not passed), and whether an exception it raises is caught by
\* the try of the loop over the backends
create_robot(a, n) ==
    IF ~need_media(a)
    THEN [media_backend |-> "no_media", localhost_only |-> PyBoolStr(~a.wireless),
          caught |-> FALSE]
    ELSE IF ~a.wireless
    THEN [media_backend |-> "default", localhost_only |-> "default", caught |-> FALSE]
    ELSE IF n < Len(backends)
    THEN [media_backend |-> backends[n + 1], localhost_only |-> "False",
          caught |-> TRUE]
    ELSE [media_backend |-> "no_media", localhost_only |-> "False", caught |-> FALSE]

\* (variant: the robot is disconnected before the loop is closed)
run_finally_disconnect_first == <<"robot.client.disconnect", "loop.close">>

\* the finally block of run(): loop.close(), then robot.client.disconnect()
run_finally == <<"loop.close", "robot.client.disconnect">>

\* the finally block of run_conversation, entered however handler.run ended
conversation_finally(outcome) == <<"handler.close">>

NoArgs == [robot_audio |-> FALSE, no_camera |-> FALSE, wireless |-> FALSE]

NoRobot == [made |-> FALSE, media_backend |-> "", localhost_only |-> ""]

NoConversation == [pc |-> "none", handler |-> FALSE, pending |-> "none"]

InitMain ==
    /\ runPc = "parse_args"
    /\ cli_args = NoArgs
    /\ robot = NoRobot
    /\ attempts = <<>>
    /\ conv = NoConversation
    /\ events = <<>>

\* run(robot, stop_event) begins: parse_args(); given is whether the caller
\* passed a robot (ReachyMiniGeminiApp.run, main) or create_robot is to be
\* called
Run_parse_args(a, given) ==
    /\ runPc = "parse_args"
    /\ cli_args' = a
    /\ IF given
       THEN /\ robot' = [made |-> TRUE, media_backend |-> "given",
                         localhost_only |-> "given"]
            /\ runPc' = "new_event_loop"
       ELSE /\ robot' = robot
            /\ runPc' = "create_robot"
    /\ UNCHANGED <<attempts, conv, events>>
    /\ UNCHANGED <<movementVars, serverVars, configVars>>

\* create_robot constructs its next ReachyMini; the construction succeeds
\* (ok) or raises
Construct(ok) ==
    LET c == create_robot(cli_args, Len(attempts)) IN
    /\ runPc = "create_robot"
    /\ attempts' = Append(attempts, [media_backend |-> c.media_backend,
                                     localhost_only |-> c.localhost_only,
                                     ok |-> ok])
    /\ robot' = IF ok
                THEN [made |-> TRUE, media_backend |-> c.media_backend,
                      localhost_only |-> c.localhost_only]
                ELSE robot
    /\ runPc' = IF ok THEN "new_event_loop"
                ELSE IF c.caught THEN "create_robot"
                ELSE "raised"
    /\ UNCHANGED <<cli_args, conv, events>>
    /\ UNCHANGED <<movementVars, serverVars, configVars>>

\* loop = asyncio.new_event_loop(); loop.run_until_complete(run_conversation(..))
\* is entered
NewEventLoop ==
    /\ runPc = "new_event_loop"
    /\ runPc' = "run_until_complete"
    /\ events' = Append(events, "new_event_loop")
    /\ conv' = [conv EXCEPT !.pc = "start"]
    /\ UNCHANGED <<cli_args, robot, attempts>>
    /\ UNCHANGED <<movementVars, serverVars, configVars>>

\* run_conversation runs from its start to its first suspension: the API key
\* test, the construction of the handler (which succeeds, ok, or raises) and
\* the await of handler.run
ConversationStarts(ok) ==
    /\ runPc = "run_until_complete"
    /\ conv.pc = "start"
    /\ IF ~truthy(os_environ_get(env))
       THEN /\ conv' = [conv EXCEPT !.pc = "returned"]
            /\ events' = events
       ELSE IF ~ok
       THEN /\ conv' = [conv EXCEPT !.pc = "raised", !.pending = "Exception"]
            /\ events' = events
       ELSE /\ conv' = [conv EXCEPT !.pc = "handler.run", !.handler = TRUE]
            /\ events' = events \o <<"GeminiLiveHandler", "handler.run">>
    /\ UNCHANGED <<runPc, cli_args, robot, attempts>>
    /\ UNCHANGED <<movementVars, serverVars, configVars>>

\* handler.run ends inside the coroutine: it returns, raises an Exception
\* (logged, re-raised after the finally) or a KeyboardInterrupt reaches the
\* except clause (logged, swallowed); the finally block begins
HandlerRunEnds(outcome) ==
    /\ runPc = "run_until_complete"
    /\ conv.pc = "handler.run"
    /\ events' = events \o conversation_finally(outcome)
    /\ conv' = IF conversation_finally(outcome) # <<>>
               THEN [conv EXCEPT !.pc = "handler.close",
                                 !.pending = IF outcome = "Exception"
                                             THEN "Exception" ELSE "none"]
               ELSE [conv EXCEPT !.pc = IF outcome = "Exception"
                                        THEN "raised" ELSE "returned",
                                 !.pending = IF outcome = "Exception"
                                             THEN "Exception" ELSE "none"]
    /\ UNCHANGED <<runPc, cli_args, robot, attempts>>
    /\ UNCHANGED <<movementVars, serverVars, configVars>>

\* the awaited handler.close() ends, normally (ok) or with an exception, and
\* run_conversation exits
HandlerCloseEnds(ok) ==
    /\ runPc = "run_until_complete"
    /\ conv.pc = "handler.close"
    /\ conv' = IF ok /\ conv.pending = "none"
               THEN [conv EXCEPT !.pc = "returned"]
               ELSE [conv EXCEPT !.pc = "raised", !.pending = "Exception"]
    /\ UNCHANGED <<runPc, cli_args, robot, attempts, events>>
    /\ UNCHANGED <<movementVars, serverVars, configVars>>

\* Ctrl+C while the event loop waits and the coroutine is suspended:
\* KeyboardInterrupt is raised out of run_until_complete, the coroutine is
\* left where it is
LoopInterrupted ==
    /\ runPc = "run_until_complete"
    /\ conv.pc \in {"handler.run", "handler.close"}
    /\ conv' = [conv EXCEPT !.pc = "abandoned"]
    /\ runPc' = "finally"
    /\ UNCHANGED <<cli_args, robot, attempts, events>>
    /\ UNCHANGED <<movementVars, serverVars, configVars>>

\* run_until_complete ends with the result or the exception of
\* run_conversation
RunUntilCompleteEnds ==
    /\ runPc = "run_until_complete"
    /\ conv.pc \in {"returned", "raised"}
    /\ runPc' = "finally"
    /\ UNCHANGED <<cli_args, robot, attempts, conv, events>>
    /\ UNCHANGED <<movementVars, serverVars, configVars>>

\* the finally block of run(), then run() returns or lets the exception on
RunFinally(ok) ==
    /\ runPc = "finally"
    /\ events' = events \o run_finally
    /\ runPc' = IF conv.pc = "returned" /\ ok THEN "returned" ELSE "raised"
    /\ UNCHANGED <<cli_args, robot, attempts, conv>>
    /\ UNCHANGED <<movementVars, serverVars, configVars>>

\* the coroutine left suspended is finalized by the interpreter: GeneratorExit
\* is thrown into it at its await, its finally block begins handler.close()
\* and the coroutine is closed
ConversationDiscarded ==
    /\ runPc \in {"finally", "returned", "raised"}
    /\ conv.pc = "abandoned"
    /\ events' = IF "handler.close" \in Range(events)
                 THEN events ELSE events \o conversation_finally("GeneratorExit")
    /\ conv' = [conv EXCEPT !.pc = "raised", !.pending = "GeneratorExit"]
    /\ UNCHANGED <<runPc, cli_args, robot, attempts>>
    /\ UNCHANGED <<movementVars, serverVars, configVars>>

ArgsInputs == [robot_audio : BOOLEAN, no_camera : BOOLEAN, wireless : BOOLEAN]

HandlerRunOutcomes == {"returns", "Exception", "KeyboardInterrupt"}

NextMain ==
    \/ \E a \in ArgsInputs, given \in BOOLEAN : Run_parse_args(a, given)
    \/ \E ok \in BOOLEAN : Construct(ok)
    \/ NewEventLoop
    \/ \E ok \in BOOLEAN : ConversationStarts(ok)
    \/ \E o \in HandlerRunOutcomes : HandlerRunEnds(o)
    \/ \E ok \in BOOLEAN : HandlerCloseEnds(ok)
    \/ LoopInterrupted
    \/ RunUntilCompleteEnds
    \/ \E ok \in BOOLEAN : RunFinally(ok)
    \/ ConversationDiscarded
    \/ \E e \in EnvInputs : SetEnv(e)

-----------------------------------------------------------------------------
(* The coroutines as a state machine.                                      *)

\* no coroutine started yet
NoCall == [op |-> "none", args |-> <<>>]

\* the plan of the coroutine a task runs
PlanOf(c) ==
    CASE c.op = "move_head" -> move_head(c.args[1], c.args[2])
      [] c.op = "move_head_precise" ->
             move_head_precise(c.args[1], c.args[2], c.args[3], c.args[4])
      [] c.op = "move_antennas" -> move_antennas(c.args[1], c.args[2], c.args[3])
      [] c.op = "antenna_expression" -> antenna_expression(c.args[1])
      [] c.op = "nod_yes" -> nod_yes(c.args[1])
      [] c.op = "shake_no" -> shake_no(c.args[1])
      [] c.op = "tilt_head" -> tilt_head(c.args[1], c.args[2])
      [] c.op = "look_at_camera" -> look_at_camera
      [] c.op = "wake_up" -> wake_up
      [] c.op = "go_to_sleep" -> go_to_sleep
      [] c.op = "express_emotion" -> express_emotion(c.args[1])
      [] c.op = "do_dance" -> do_dance(c.args[1])
      [] c.op = "reset_position" -> reset_position
      [] OTHER -> Plan(<<>>, <<>>, "")

\* what the robot handle receives for a step: robot.goto_target(head=,
\* antennas=, duration=), robot.wake_up() or robot.goto_sleep()
DeviceCall(step) ==
    [kind |-> step.kind, head |-> step.head, antennas |-> step.antennas,
     duration |-> step.duration]

\* (variant: the pause after a step left out)
post_sleep_skipped(step) == FALSE

\* await asyncio.sleep(d) after a step's device call: the coroutine pauses
post_sleep(step) == step.postDelay > 0

\* (variant: no try/except, the device's exception leaves the wrapper)
_goto_target_uncaught(ok) == IF ok THEN "completed" ELSE "raised"

\* _goto_target's try/except around the awaited worker thread: whether the
\* device call returned (ok) or raised, the wrapper itself completes
_goto_target(ok) == "completed"

\* (variant: the device call is made directly on the event loop's thread)
loop_blocked_by_direct_call(busy) == busy > 0

\* asyncio.to_thread runs the device call on a worker thread: the event loop's
\* thread stays free to run other coroutines while busy calls are in flight
loop_blocked(busy) == FALSE

Init ==
    /\ call = [t \in Tasks |-> NoCall]
    /\ pc = [t \in Tasks |-> "idle"]
    /\ idx = [t \in Tasks |-> 0]
    /\ calls = [t \in Tasks |-> <<>>]
    /\ returned = [t \in Tasks |-> 0]
    /\ slept = [t \in Tasks |-> 0]
    /\ nfail = [t \in Tasks |-> 0]
    /\ warnings = [t \in Tasks |-> <<>>]
    /\ result = [t \in Tasks |-> ""]
    /\ inFlight = 0
    /\ stop = FALSE
    /\ callsAtStop = [t \in Tasks |-> -1]
    /\ InitServer
    /\ InitConfig
    /\ InitMain

\* The coroutine of task t runs on from step k (already completed) to its next
\* suspension point: the worker thread of step k+1, or its return statement.
\* busy is the number of device commands in flight as the coroutine resumes.
RunOn(t, p, k, busy) ==
    IF k < Len(p.steps)
    THEN /\ idx' = [idx EXCEPT ![t] = k + 1]
         /\ calls' = [calls EXCEPT ![t] = Append(IF k = 0 THEN <<>> ELSE @,
                                                 DeviceCall(p.steps[k + 1]))]
         /\ inFlight' = busy + 1
         /\ pc' = [pc EXCEPT ![t] = "inflight"]
         /\ result' = [result EXCEPT ![t] = ""]
    ELSE /\ idx' = [idx EXCEPT ![t] = k]
         /\ calls' = [calls EXCEPT ![t] = IF k = 0 THEN <<>> ELSE @]
         /\ inFlight' = busy
         /\ pc' = [pc EXCEPT ![t] = "done"]
         /\ result' = [result EXCEPT ![t] = p.msg]

\* A caller awaits facade coroutine c: it runs to its first suspension point.
Start(t, c) ==
    LET p == PlanOf(c) IN
    /\ pc[t] = "idle"
    /\ ~loop_blocked(inFlight)
    /\ call' = [call EXCEPT ![t] = c]
    /\ returned' = [returned EXCEPT ![t] = 0]
    /\ slept' = [slept EXCEPT ![t] = 0]
    /\ nfail' = [nfail EXCEPT ![t] = 0]
    /\ warnings' = [warnings EXCEPT ![t] = p.warnings]
    /\ IF p.raises
       THEN /\ pc' = [pc EXCEPT ![t] = "raised"]
            /\ result' = [result EXCEPT ![t] = p.msg]
            /\ idx' = [idx EXCEPT ![t] = 0]
            /\ calls' = [calls EXCEPT ![t] = <<>>]
            /\ UNCHANGED inFlight
       ELSE RunOn(t, p, 0, inFlight)
    /\ UNCHANGED <<stop, callsAtStop>>
    /\ UNCHANGED <<serverVars, configVars, mainVars>>

Call_move_head(t, direction, duration) ==
    Start(t, [op |-> "move_head", args |-> <<direction, duration>>])

Call_move_head_precise(t, roll, pitch, yaw, duration) ==
    Start(t, [op |-> "move_head_precise", args |-> <<roll, pitch, yaw, duration>>])

Call_move_antennas(t, right_angle, left_angle, duration) ==
    Start(t, [op |-> "move_antennas", args |-> <<right_angle, left_angle, duration>>])

Call_antenna_expression(t, expression) ==
    Start(t, [op |-> "antenna_expression", args |-> <<expression>>])

Call_nod_yes(t, times) == Start(t, [op |-> "nod_yes", args |-> <<times>>])

Call_shake_no(t, times) == Start(t, [op |-> "shake_no", args |-> <<times>>])

Call_tilt_head(t, direction, angle) ==
    Start(t, [op |-> "tilt_head", args |-> <<direction, angle>>])

Call_look_at_camera(t) == Start(t, [op |-> "look_at_camera", args |-> <<>>])

Call_wake_up(t) == Start(t, [op |-> "wake_up", args |-> <<>>])

Call_go_to_sleep(t) == Start(t, [op |-> "go_to_sleep", args |-> <<>>])

Call_express_emotion(t, emotion) ==
    Start(t, [op |-> "express_emotion", args |-> <<emotion>>])

Call_do_dance(t, style) == Start(t, [op |-> "do_dance", args |-> <<style>>])

Call_reset_position(t) == Start(t, [op |-> "reset_position", args |-> <<>>])

\* The worker thread of asyncio.to_thread finishes the device call of task t,
\* normally (ok) or with an exception, and the coroutine resumes.
DeviceReturn(t, ok) ==
    LET p == PlanOf(call[t])
        step == p.steps[idx[t]]
    IN
    /\ pc[t] = "inflight"
    /\ returned' = [returned EXCEPT ![t] = @ + 1]
    /\ nfail' = [nfail EXCEPT ![t] = IF ok THEN @ ELSE @ + 1]
    /\ IF step.kind = "goto_target"
       THEN IF _goto_target(ok) = "completed"
            THEN IF post_sleep(step)
                 THEN /\ pc' = [pc EXCEPT ![t] = "sleep"]
                      /\ inFlight' = inFlight - 1
                      /\ UNCHANGED <<idx, calls, result>>
                 ELSE RunOn(t, p, idx[t], inFlight - 1)
            ELSE /\ pc' = [pc EXCEPT ![t] = "raised"]
                 /\ result' = [result EXCEPT ![t] = "Exception"]
                 /\ inFlight' = inFlight - 1
                 /\ UNCHANGED <<idx, calls>>
       ELSE /\ pc' = [pc EXCEPT ![t] = "done"]
            /\ result' = [result EXCEPT ![t] = IF ok THEN p.msg ELSE p.failMsg]
            /\ inFlight' = inFlight - 1
            /\ UNCHANGED <<idx, calls>>
    /\ UNCHANGED <<call, slept, warnings, stop, callsAtStop>>
    /\ UNCHANGED <<serverVars, configVars, mainVars>>

\* The asyncio.sleep after a step elapses and the coroutine goes on.
SleepElapsed(t) ==
    /\ pc[t] = "sleep"
    /\ ~loop_blocked(inFlight)
    /\ slept' = [slept EXCEPT ![t] = @ + 1]
    /\ RunOn(t, PlanOf(call[t]), idx[t], inFlight)
    /\ UNCHANGED <<call, returned, nfail, warnings, stop, callsAtStop>>
    /\ UNCHANGED <<serverVars, configVars, mainVars>>

\* The awaiting caller receives the status string, or the exception, and the
\* coroutine is gone.
CallerResumes(t) ==
    /\ pc[t] \in {"done", "raised"}
    /\ ~loop_blocked(inFlight)
    /\ call' = [call EXCEPT ![t] = NoCall]
    /\ pc' = [pc EXCEPT ![t] = "idle"]
    /\ idx' = [idx EXCEPT ![t] = 0]
    /\ calls' = [calls EXCEPT ![t] = <<>>]
    /\ returned' = [returned EXCEPT ![t] = 0]
    /\ slept' = [slept EXCEPT ![t] = 0]
    /\ nfail' = [nfail EXCEPT ![t] = 0]
    /\ warnings' = [warnings EXCEPT ![t] = <<>>]
    /\ result' = [result EXCEPT ![t] = ""]
    /\ callsAtStop' = [callsAtStop EXCEPT ![t] = -1]
    /\ UNCHANGED <<inFlight, stop>>
    /\ UNCHANGED <<serverVars, configVars, mainVars>>

\* stop_event.set()
SetStop ==
    /\ ~stop
    /\ stop' = TRUE
    /\ callsAtStop' = [t \in Tasks |->
                           IF pc[t] \in {"inflight", "sleep"} THEN Len(calls[t]) ELSE -1]
    /\ UNCHANGED <<call, pc, idx, calls, returned, slept, nfail, warnings, result, inFlight>>
    /\ UNCHANGED <<serverVars, configVars, mainVars>>

-----------------------------------------------------------------------------
(* The arguments callers pass.                                             *)

Directions == {"left", "right", "up", "down", "center", "sideways"}
DurationInputs == {-1000, 0, 500, 3600000}
AngleInputs == {-MaxAngle, -46, -45, -31, -30, 0, 30, 31, 45, 46, MaxAngle}
AntennaInputs == {-MaxAntennaDeg, -90, -89, 0, 45, 89, 90, MaxAntennaDeg}
ExpressionInputs == DOMAIN expressions \cup {"nonexistent"}
TimesInputs ==
    {PyInt(n) : n \in -1 .. MaxTimes} \cup {PyFloat(k) : k \in {1, 2, 4, 5, 10, 11}}
TiltDirections == {"left", "right", "up"}
TiltAngles == {-MaxAngle, 0, 5, 20, 30, MaxAngle}
Emotions == DOMAIN emotion_methods \cup {"bored"}
Styles == {"default", "happy", "silly", "robot"}

\* one caller awaiting one facade coroutine after another
Sequential == {1}

Facade(t) ==
    \/ \E d \in Directions, dur \in DurationInputs : Call_move_head(t, d, dur)
    \/ \E r \in AngleInputs, p \in AngleInputs, y \in AngleInputs, dur \in DurationInputs :
           Call_move_head_precise(t, r, p, y, dur)
    \/ \E r \in AntennaInputs, l \in AntennaInputs, dur \in DurationInputs :
           Call_move_antennas(t, r, l, dur)
    \/ \E e \in ExpressionInputs : Call_antenna_expression(t, e)
    \/ \E n \in TimesInputs : Call_nod_yes(t, n)
    \/ \E n \in TimesInputs : Call_shake_no(t, n)
    \/ \E d \in TiltDirections, a \in TiltAngles : Call_tilt_head(t, d, a)
    \/ Call_look_at_camera(t)
    \/ Call_wake_up(t)
    \/ Call_go_to_sleep(t)
    \/ \E e \in Emotions : Call_express_emotion(t, e)
    \/ \E s \in Styles : Call_do_dance(t, s)
    \/ Call_reset_position(t)

Next ==
    \/ \E t \in Sequential : Facade(t)
    \/ \E t \in Sequential, ok \in BOOLEAN : DeviceReturn(t, ok)
    \/ \E t \in Sequential : SleepElapsed(t)
    \/ \E t \in Sequential : CallerResumes(t)
    \/ SetStop

Spec == Init /\ [][Next]_vars

\* several tasks of one event loop awaiting facade coroutines of the same
\* MovementController
NextConc ==
    \E t \in Tasks :
        \/ Call_nod_yes(t, PyInt(1))
        \/ Call_express_emotion(t, "sad")
        \/ Call_wake_up(t)
        \/ Call_go_to_sleep(t)
        \/ \E ok \in BOOLEAN : DeviceReturn(t, ok)
        \/ SleepElapsed(t)
        \/ CallerResumes(t)

SpecConc == Init /\ [][NextConc]_vars

\* The sequential caller under the scheduling the program relies on: a device
\* call handed to asyncio.to_thread eventually returns or raises (the robot
\* answers), and the timer of an asyncio.sleep eventually fires on the running
\* event loop.
SpecServer == Init /\ [][NextServer]_vars

SpecConfig == Init /\ [][NextConfig]_vars

SpecMain == Init /\ [][NextMain]_vars

SpecLive ==
    /\ Init
    /\ [][Next]_vars
    /\ WF_vars(\E t \in Sequential, ok \in BOOLEAN : DeviceReturn(t, ok))
    /\ WF_vars(\E t \in Sequential : SleepElapsed(t))

-----------------------------------------------------------------------------
(* Properties.                                                             *)

\* the coroutine of task t has been started and did not raise before its
\* first await
Running(t) == pc[t] \in {"inflight", "sleep", "done"}

\* x saturated to [-lim, lim]
Sat(x, lim) == IF x > lim THEN lim ELSE IF x < -lim THEN -lim ELSE x

\* C1: every goto_target call that reaches the device carries a head
\* orientation with roll and pitch in [-30,30] and yaw in [-45,45] degrees,
\* and antenna angles in [-1.57,1.57] rad, whatever the operation and its
\* arguments.
C1_TargetsWithinLimits ==
    \A t \in Tasks : \A i \in 1 .. Len(calls[t]) :
        LET d == calls[t][i] IN
        d.kind = "goto_target" =>
            /\ d.head # None =>
                   /\ d.head[1] >= -30 /\ d.head[1] <= 30
                   /\ d.head[2] >= -30 /\ d.head[2] <= 30
                   /\ d.head[3] >= -45 /\ d.head[3] <= 45
            /\ d.antennas # None =>
                   \A k \in 1 .. 2 : d.antennas[k] >= -1570000 /\ d.antennas[k] <= 1570000

\* C1 witness: move_antennas(180, -180) has reached the device, saturated.
C1_Witness ==
    \E t \in Tasks :
        /\ call[t].op = "move_antennas"
        /\ call[t].args[1] = 180 /\ call[t].args[2] = -180
        /\ Len(calls[t]) = 1
        /\ calls[t][1].antennas = <<1570000, -1570000>>

\* C2: at most one device command is in flight on the robot handle at any
\* instant, also when a second facade operation is invoked while a first one
\* is suspended.
C2_AtMostOneInFlight == inFlight <= 1

\* the steps among the first n of a plan that are followed by a pause
Pauses(p, n) == Cardinality({i \in 1 .. n : p.steps[i].postDelay > 0})

\* C3: within one operation the steps' device calls are issued in the defined
\* order; call k+1 is issued only after call k has returned and the pause
\* after step k has elapsed; the status string is returned only after the last
\* call has returned, N calls having been issued for N steps.
C3_StepsInOrder ==
    \A t \in Tasks : Running(t) =>
        LET p == PlanOf(call[t])
            n == Len(calls[t])
        IN  /\ n <= Len(p.steps)
            /\ \A i \in 1 .. n : calls[t][i] = DeviceCall(p.steps[i])
            /\ n > 0 => returned[t] \in {n - 1, n}
            /\ n > 0 => slept[t] >= Pauses(p, n - 1)
            /\ pc[t] = "inflight" <=> returned[t] < n
            /\ pc[t] = "done" => n = Len(p.steps) /\ returned[t] = n
            /\ (pc[t] = "done" /\ call[t] = [op |-> "express_emotion", args |-> <<"angry">>]) =>
                   [i \in 1 .. n |-> calls[t][i].head] =
                       <<(<<0, 10, 0>>), (<<0, 10, 10>>), (<<0, 10, -10>>), (<<0, 5, 0>>)>>

\* C3 witness: the angry expression has issued its third call, after two
\* returned calls and two elapsed pauses.
C3_Witness ==
    \E t \in Tasks :
        /\ call[t] = [op |-> "express_emotion", args |-> <<"angry">>]
        /\ pc[t] = "inflight" /\ Len(calls[t]) = 3
        /\ returned[t] = 2 /\ slept[t] = 2

\* min(5, max(1, n)) for an integer n
Count15(n) == IF n < 1 THEN 1 ELSE IF n > 5 THEN 5 ELSE n

\* the number of device calls of a choreography when no call fails
ChoreographyCalls(c) ==
    CASE c.op \in {"nod_yes", "shake_no"} -> 2 * Count15(c.args[1].h \div 2) + 1
      [] c.op = "do_dance" -> IF c.args[1] = "silly" THEN 5 ELSE 7
      [] c.op = "express_emotion" ->
             (CASE c.args[1] = "excited" -> 7
                [] c.args[1] = "angry" -> 4
                [] c.args[1] \in {"sad", "surprised", "curious"} -> 2
                [] OTHER -> 3)

\* the status string of a choreography when no call fails
ChoreographyStatus(c) ==
    CASE c.op = "nod_yes" ->
             "Nodded yes " \o ToString(Count15(c.args[1].h \div 2)) \o " times"
      [] c.op = "shake_no" ->
             "Shook head no " \o ToString(Count15(c.args[1].h \div 2)) \o " times"
      [] c.op = "do_dance" -> "Finished " \o c.args[1] \o " dance"
      [] c.op = "express_emotion" -> "Expressed " \o c.args[1]

\* C4: in a choreography operation, whichever goto_target calls raise, the
\* later steps are still issued: the operation does not raise, and it ends
\* with the same number of device calls and the same status string as the run
\* in which no call fails.
C4_FailuresDoNotAbort ==
    \A t \in Tasks :
        (call[t].op \in {"nod_yes", "shake_no", "express_emotion", "do_dance"} /\ nfail[t] > 0) =>
            /\ pc[t] # "raised"
            /\ pc[t] = "done" =>
                   /\ Len(calls[t]) = ChoreographyCalls(call[t])
                   /\ result[t] = ChoreographyStatus(call[t])

\* C4 witness: nod_yes(5) has returned although all of its eleven calls raised.
C4_Witness ==
    \E t \in Tasks :
        /\ call[t] = [op |-> "nod_yes", args |-> <<PyInt(5)>>]
        /\ pc[t] = "done" /\ nfail[t] = 11 /\ Len(calls[t]) = 11

\* C5: every facade operation returns a status string for any arguments,
\* non-integer counts included; no exception reaches the caller.
C5_FacadeIsTotal == \A t \in Tasks : pc[t] # "raised"

\* C6: once the stop signal is raised while a choreography runs, the
\* choreography issues no device call beyond the one already in flight.
C6_NoStepAfterStop ==
    \A t \in Tasks : callsAtStop[t] >= 0 => Len(calls[t]) = callsAtStop[t]

\* the emotion of task t is none of the nine known ones
UnknownEmotion(t) ==
    /\ call[t].op = "express_emotion"
    /\ call[t].args[1] \notin
           {"happy", "sad", "surprised", "curious", "excited", "sleepy", "confused",
            "angry", "love"}

C8_NodYesCalls ==
    \A t \in Tasks :
        (call[t].op = "nod_yes" /\ call[t].args[1].ty = "int" /\ Running(t)) =>
            LET c == Count15(call[t].args[1].h \div 2)
                n == Len(calls[t])
            IN  /\ n <= 2 * c + 1
                /\ \A i \in 1 .. n :
                       /\ calls[t][i].kind = "goto_target"
                       /\ calls[t][i].head =
                              IF i = 2 * c + 1 THEN <<0, 0, 0>>
                              ELSE IF i % 2 = 1 THEN <<0, 15, 0>> ELSE <<0, -10, 0>>
                /\ pc[t] = "done" =>
                       /\ n = 2 * c + 1
                       /\ result[t] = "Nodded yes " \o ToString(c) \o " times"
                       /\ call[t].args[1] = PyInt(10) => n = 11

\* C8 witness: nod_yes(10) has returned after eleven calls.
C8_Witness ==
    \E t \in Tasks :
        /\ call[t] = [op |-> "nod_yes", args |-> <<PyInt(10)>>]
        /\ pc[t] = "done" /\ Len(calls[t]) = 11
        /\ result[t] = "Nodded yes 5 times"

\* C9: move_head_precise issues exactly one device call, whose orientation is
\* the input saturated to roll, pitch in [-30,30] and yaw in [-45,45], and the
\* returned message reports the saturated values.
C9_PreciseClampedAndReported ==
    \A t \in Tasks : (call[t].op = "move_head_precise" /\ Running(t)) =>
        LET r == Sat(call[t].args[1], 30)
            p == Sat(call[t].args[2], 30)
            y == Sat(call[t].args[3], 45)
        IN  /\ Len(calls[t]) = 1
            /\ calls[t][1].kind = "goto_target"
            /\ calls[t][1].head = <<r, p, y>>
            /\ pc[t] = "done" =>
                   result[t] = "Moved head to roll=" \o ToString(r) \o ", pitch="
                                   \o ToString(p) \o ", yaw=" \o ToString(y)

\* C9 witness: move_head_precise(roll=50) has returned, reporting roll=30.
C9_Witness ==
    \E t \in Tasks :
        /\ call[t].op = "move_head_precise"
        /\ call[t].args[1] = 50 /\ call[t].args[2] = 0 /\ call[t].args[3] = 0
        /\ pc[t] = "done"
        /\ calls[t][1].head = <<30, 0, 0>>
        /\ result[t] = "Moved head to roll=30, pitch=0, yaw=0"

\* the pose documented for a direction of move_head
DirectionPose(d) ==
    CASE d = "left" -> <<0, 0, 25>>
      [] d = "right" -> <<0, 0, -25>>
      [] d = "up" -> <<0, -20, 0>>
      [] d = "down" -> <<0, 20, 0>>
      [] OTHER -> <<0, 0, 0>>

\* C10: move_head issues exactly one device call; a known direction gets its
\* pose and the message "Moved head <direction>", any other string gets the
\* center pose, a logged warning and the message "Moved head center".
C10_MoveHeadPoses ==
    \A t \in Tasks : (call[t].op = "move_head" /\ Running(t)) =>
        LET d == call[t].args[1]
            known == d \in {"left", "right", "up", "down", "center"}
        IN  /\ Len(calls[t]) = 1
            /\ calls[t][1].kind = "goto_target"
            /\ calls[t][1].head = DirectionPose(d)
            /\ known => warnings[t] = <<>>
            /\ ~known => Len(warnings[t]) = 1
            /\ pc[t] = "done" =>
                   result[t] = "Moved head " \o (IF known THEN d ELSE "center")

\* C10 witness: move_head("sideways") has returned "Moved head center".
C10_Witness ==
    \E t \in Tasks :
        /\ call[t].op = "move_head" /\ call[t].args[1] = "sideways"
        /\ pc[t] = "done"
        /\ calls[t][1].head = <<0, 0, 0>>
        /\ result[t] = "Moved head center"

\* the antenna pair documented for a preset of antenna_expression, in
\* micro-radians
PresetAntennas(e) ==
    CASE e = "alert" -> <<800000, -800000>>
      [] e = "droopy" -> <<-1000000, 1000000>>
      [] e = "asymmetric" -> <<500000, 200000>>
      [] e = "perky" -> <<1000000, -1000000>>
      [] OTHER -> <<0, 0>>

\* C11: antenna_expression issues exactly one device call with no head
\* target; a known name gets its preset's antenna pair, any other name gets
\* [0,0] and a message that names "neutral", not the unknown name.
C11_AntennaExpressionPresets ==
    \A t \in Tasks : (call[t].op = "antenna_expression" /\ Running(t)) =>
        LET e == call[t].args[1]
            known == e \in {"neutral", "alert", "droopy", "asymmetric", "perky"}
        IN  /\ Len(calls[t]) = 1
            /\ calls[t][1].kind = "goto_target"
            /\ calls[t][1].head = None
            /\ calls[t][1].antennas = PresetAntennas(e)
            /\ pc[t] = "done" =>
                   result[t] = "Set antennas to " \o (IF known THEN e ELSE "neutral")

\* C11 witness: antenna_expression("nonexistent") has returned.
C11_Witness ==
    \E t \in Tasks :
        /\ call[t] = [op |-> "antenna_expression", args |-> <<"nonexistent">>]
        /\ pc[t] = "done"
        /\ calls[t][1].antennas = <<0, 0>>
        /\ result[t] = "Set antennas to neutral"

\* C12: express_emotion("happy") issues exactly three device calls, in the
\* order (roll 15, antennas [0.5,-0.5]), (roll -15, antennas [-0.5,0.5]),
\* (center, antennas [0.3,-0.3]), and returns "Expressed happy".
C12_HappySequence ==
    \A t \in Tasks :
        (call[t] = [op |-> "express_emotion", args |-> <<"happy">>] /\ Running(t)) =>
            LET n == Len(calls[t])
                expected ==
                    <<[head |-> <<15, 0, 0>>, antennas |-> <<500000, -500000>>],
                      [head |-> <<-15, 0, 0>>, antennas |-> <<-500000, 500000>>],
                      [head |-> <<0, 0, 0>>, antennas |-> <<300000, -300000>>]>>
            IN  /\ n <= 3
                /\ \A i \in 1 .. n :
                       /\ calls[t][i].kind = "goto_target"
                       /\ calls[t][i].head = expected[i].head
                       /\ calls[t][i].antennas = expected[i].antennas
                /\ pc[t] = "done" =>
                       /\ n = 3
                       /\ calls[t][n].antennas = <<300000, -300000>>
                       /\ result[t] = "Expressed happy"

\* C12 witness: express_emotion("happy") has returned after its third call.
C12_Witness ==
    \E t \in Tasks :
        /\ call[t] = [op |-> "express_emotion", args |-> <<"happy">>]
        /\ pc[t] = "done" /\ Len(calls[t]) = 3 /\ returned[t] = 3
        /\ result[t] = "Expressed happy"

\* C13: the duration that move_head, move_head_precise and move_antennas pass
\* to the device is strictly positive and bounded, whatever duration the
\* caller gave (an hour is not forwarded unchanged).
C13_DurationBounded ==
    \A t \in Tasks : \A i \in 1 .. Len(calls[t]) :
        call[t].op \in {"move_head", "move_head_precise", "move_antennas"} =>
            /\ calls[t][i].duration > 0
            /\ calls[t][i].duration < 3600000

UnknownKey(t) ==
    \/ call[t].op = "move_head"
           /\ call[t].args[1] \notin {"left", "right", "up", "down", "center"}
    \/ call[t].op = "antenna_expression"
           /\ call[t].args[1] \notin {"neutral", "alert", "droopy", "asymmetric", "perky"}
    \/ UnknownEmotion(t)
    \/ call[t].op = "do_dance" /\ call[t].args[1] \notin {"default", "happy", "silly"}

\* C15: a facade call that receives an unrecognized direction, expression,
\* emotion or style has logged a warning by the time it returns.
C15_UnknownKeyWarned ==
    \A t \in Tasks : (UnknownKey(t) /\ pc[t] = "done") => Len(warnings[t]) >= 1

\* C16: the clamp max(lo, min(hi, x)) of each axis (roll and pitch [-30,30],
\* yaw [-45,45]) yields a value within the axis' range for every input, and
\* clamping the value it yielded again changes nothing.
C16_ClampInRangeIdempotent ==
    \A t \in Tasks : (call[t].op = "move_head_precise" /\ Running(t)) =>
        \A axis \in 1 .. 3 :
            LET hi == IF axis = 3 THEN 45 ELSE 30
                x == call[t].args[axis]
                sent == calls[t][1].head[axis]
            IN  /\ sent = clamp(x, -hi, hi)
                /\ sent >= -hi /\ sent <= hi
                /\ (x >= -hi /\ x <= hi) => sent = x
                /\ clamp(sent, -hi, hi) = sent

\* C16 witness: a call with every axis out of range, on both sides, has been
\* clamped and sent.
C16_Witness ==
    \E t \in Tasks :
        /\ call[t].op = "move_head_precise"
        /\ call[t].args[1] = 31 /\ call[t].args[2] = -31 /\ call[t].args[3] = 46
        /\ Len(calls[t]) = 1
        /\ calls[t][1].head = <<30, -30, 45>>

\* C17: for an integer times, shake_no issues c = min(5, max(1, times)) pairs
\* (yaw 20, then yaw -20) and one center pose as its last call, 2c+1 calls in
\* all, and returns "Shook head no c times".
C17_ShakeNoCalls ==
    \A t \in Tasks :
        (call[t].op = "shake_no" /\ call[t].args[1].ty = "int" /\ Running(t)) =>
            LET c == Count15(call[t].args[1].h \div 2)
                n == Len(calls[t])
            IN  /\ n <= 2 * c + 1
                /\ \A i \in 1 .. n :
                       /\ calls[t][i].kind = "goto_target"
                       /\ calls[t][i].head =
                              IF i = 2 * c + 1 THEN <<0, 0, 0>>
                              ELSE IF i % 2 = 1 THEN <<0, 0, 20>> ELSE <<0, 0, -20>>
                /\ pc[t] = "done" =>
                       /\ n = 2 * c + 1
                       /\ calls[t][n].head = <<0, 0, 0>>
                       /\ result[t] = "Shook head no " \o ToString(c) \o " times"

\* C17 witness: shake_no(0) has returned after one pair and the center pose.
C17_Witness ==
    \E t \in Tasks :
        /\ call[t] = [op |-> "shake_no", args |-> <<PyInt(0)>>]
        /\ pc[t] = "done" /\ Len(calls[t]) = 3
        /\ result[t] = "Shook head no 1 times"

\* C18: do_dance ends with a reset call (center pose, antennas [0,0]) as its
\* last call; "silly" issues 2 silly pairs and the reset, 5 calls; every other
\* style, unrecognized ones included, issues 3 default pairs and the reset, 7
\* calls.
C18_DanceEndsWithReset ==
    \A t \in Tasks : (call[t].op = "do_dance" /\ Running(t)) =>
        LET silly == call[t].args[1] = "silly"
            total == IF silly THEN 5 ELSE 7
            n == Len(calls[t])
        IN  /\ n <= total
            /\ \A i \in 1 .. n :
                   /\ calls[t][i].kind = "goto_target"
                   /\ calls[t][i].head =
                          IF i = total THEN <<0, 0, 0>>
                          ELSE IF silly
                               THEN (IF i % 2 = 1 THEN <<25, 0, 15>> ELSE <<-25, 0, -15>>)
                               ELSE (IF i % 2 = 1 THEN <<15, -5, 0>> ELSE <<-15, -5, 0>>)
                   /\ calls[t][i].antennas =
                          IF i = total THEN <<0, 0>>
                          ELSE IF silly
                               THEN (IF i % 2 = 1 THEN <<1000000, 0>> ELSE <<0, -1000000>>)
                               ELSE (IF i % 2 = 1 THEN <<600000, -600000>>
                                     ELSE <<-600000, 600000>>)
            /\ pc[t] = "done" =>
                   /\ n = total
                   /\ calls[t][n].head = <<0, 0, 0>> /\ calls[t][n].antennas = <<0, 0>>

\* C18 witness: do_dance("robot") has returned after seven calls.
C18_Witness ==
    \E t \in Tasks :
        /\ call[t] = [op |-> "do_dance", args |-> <<"robot">>]
        /\ pc[t] = "done" /\ Len(calls[t]) = 7
        /\ calls[t][7].antennas = <<0, 0>>

\* C19: the device calls of move_head, move_head_precise, tilt_head, nod_yes
\* and shake_no leave the antenna target unset; those of move_antennas and
\* antenna_expression leave the head target unset.
C19_UntouchedActuators ==
    \A t \in Tasks : \A i \in 1 .. Len(calls[t]) :
        /\ call[t].op \in {"move_head", "move_head_precise", "tilt_head", "nod_yes", "shake_no"} =>
               calls[t][i].antennas = None /\ calls[t][i].head # None
        /\ call[t].op \in {"move_antennas", "antenna_expression"} =>
               calls[t][i].head = None /\ calls[t][i].antennas # None

\* C19 witness: tilt_head("left", 20) has issued its call, head only.
C19_Witness ==
    \E t \in Tasks :
        /\ call[t] = [op |-> "tilt_head", args |-> <<"left", 20>>]
        /\ Len(calls[t]) = 1
        /\ calls[t][1].head = <<20, 0, 0>> /\ calls[t][1].antennas = None

\* C20: wake_up and go_to_sleep each issue exactly one lifecycle device call
\* (robot.wake_up, robot.goto_sleep) and no goto_target; they return the
\* success text when the call returns and a text reporting the failure when it
\* raises, and do not raise themselves.
C20_LifecycleCalls ==
    \A t \in Tasks : (call[t].op \in {"wake_up", "go_to_sleep"} /\ pc[t] # "idle") =>
        LET wake == call[t].op = "wake_up" IN
        /\ pc[t] # "raised"
        /\ Len(calls[t]) = 1
        /\ calls[t][1].kind = (IF wake THEN "wake_up" ELSE "goto_sleep")
        /\ pc[t] = "done" =>
               result[t] =
                   IF nfail[t] = 0
                   THEN (IF wake THEN "Woke up and ready!" ELSE "Going to sleep...")
                   ELSE (IF wake THEN "Wake up failed: " ELSE "Sleep failed: ") \o DeviceError

\* C20 witness: wake_up has returned the failure text after its call raised.
C20_Witness ==
    \E t \in Tasks :
        /\ call[t].op = "wake_up" /\ pc[t] = "done" /\ nfail[t] = 1
        /\ result[t] = "Wake up failed: device fault"

\* C21: tilt_head issues exactly one device call with pitch 0, yaw 0 and roll
\* +a for "left", -a for "right", a = min(30, max(5, angle)); a direction that
\* is neither is not silently treated as one of the two tilts (the head is not
\* rolled by a, or a warning is logged).
C21_TiltHead ==
    \A t \in Tasks : (call[t].op = "tilt_head" /\ Running(t)) =>
        LET d == call[t].args[1]
            x == call[t].args[2]
            a == IF x < 5 THEN 5 ELSE IF x > 30 THEN 30 ELSE x
        IN  /\ Len(calls[t]) = 1
            /\ calls[t][1].kind = "goto_target"
            /\ calls[t][1].head[2] = 0 /\ calls[t][1].head[3] = 0
            /\ d = "left" => calls[t][1].head[1] = a
            /\ d = "right" => calls[t][1].head[1] = -a
            /\ d \notin {"left", "right"} =>
                   \/ calls[t][1].head[1] \notin {a, -a}
                   \/ Len(warnings[t]) >= 1

C23_OneServerOneThread ==
    /\ Len(httpServers) = (IF _server.server = "None" THEN 0 ELSE 1)
    /\ threads = (IF _server.thread = "None" THEN 0 ELSE 1)
    /\ (_server.server = "None") <=> (_server.thread = "None")
    /\ (last.op \in {"start", "start_settings_server"} /\ last.before.server # "None") =>
           /\ httpServers = last.before.httpServers
           /\ threads = last.before.threads
           /\ last.ret = "http://0.0.0.0:" \o ToString(last.before.port)
    /\ last.op \in {"stop", "stop_settings_server"} =>
           (_server.server = "None" /\ _server.thread = "None")
    /\ last.ret = "OSError" => _server.server = "None"

\* start() was called on a server that was already started, and one
\* HTTPServer and one thread are serving
C23_Witness ==
    /\ last.op = "start"
    /\ last.before.server = "HTTPServer"
    /\ Len(httpServers) = 1 /\ threads = 1

\* C24: whenever start_settings_server(port) returns a URL, the global
\* settings server listens on the port passed in that call and the URL names
\* that port.
C24_StartedOnRequestedPort ==
    (last.op = "start_settings_server" /\ last.ret # "OSError") =>
        /\ last.ret = "http://0.0.0.0:" \o ToString(last.port)
        /\ ~_server.isNone /\ _server.server = "HTTPServer"
        /\ last.port \in Range(httpServers)

\* what the claim of C25 expects load_settings to return for key k when the
\* environment's API key overrides under condition overrides
Expected(k, overrides) ==
    IF k = "api_key" /\ overrides THEN PyValue("str", env.value)
    ELSE IF latest[k] # Absent THEN latest[k]
    ELSE DEFAULT_SETTINGS[k]

\* C25 as stated: load_settings returns for every key the value of the most
\* recent successful save that contained it, or the default; api_key equals
\* GOOGLE_API_KEY whenever that variable is set.
C25_LoadReturnsLatestSave ==
    \A k \in SettingKeys : load_settings(file, env)[k] = Expected(k, env.set)

\* C25: load_settings returns for every key the value of the most recent
\* successful save that contained it (a null posted to /api/settings is not
\* contained), or the default; api_key equals GOOGLE_API_KEY whenever that
\* variable is set to a non-empty string.
C25_LoadReturnsLatestSaveOrEnv ==
    \A k \in SettingKeys :
        load_settings(file, env)[k] = Expected(k, env.set /\ env.value # "")

\* a POST whose api_key was null kept the API key saved before it and changed
\* another key, while the environment holds its own key
C25_Witness ==
    /\ lastSave.op = "POST" /\ lastSave.ok
    /\ lastSave.given["api_key"] = PyNone
    /\ lastSave.given["use_camera"] = PyValue("bool", "False")
    /\ latest["api_key"] = PyValue("str", "file-key")
    /\ latest["mic_gain"] = PyValue("float", "1.5")
    /\ env.set /\ env.value = "env-key"

\* run() was entered without a robot for a wireless robot that needs media
WirelessMedia ==
    /\ runPc # "parse_args"
    /\ robot.media_backend # "given"
    /\ cli_args.wireless /\ need_media(cli_args)

\* C26: for a wireless robot that needs media, create_robot constructs with
\* the backends gstreamer, webrtc, default in this order, stops at the first
\* construction that succeeds and returns its robot, constructs a no_media
\* robot only after all three failed, and raises only when that last
\* construction fails.
C26_BackendsInOrder ==
    WirelessMedia =>
        LET n == Len(attempts) IN
        /\ n <= 4
        /\ \A i \in 1 .. n :
               /\ attempts[i].media_backend =
                      <<"gstreamer", "webrtc", "default", "no_media">>[i]
               /\ attempts[i].localhost_only = "False"
        /\ \A i \in 1 .. n - 1 : ~attempts[i].ok
        /\ robot.made <=> (n >= 1 /\ attempts[n].ok)
        /\ robot.made => robot.media_backend = attempts[n].media_backend
        /\ (runPc = "raised" /\ ~robot.made) => (n = 4 /\ ~attempts[4].ok)
        /\ runPc = "create_robot" => n <= 3

\* gstreamer and webrtc failed, default succeeded and its robot is in use
C26_Witness ==
    /\ WirelessMedia
    /\ Len(attempts) = 3
    /\ ~attempts[1].ok /\ ~attempts[2].ok /\ attempts[3].ok
    /\ robot.made /\ robot.media_backend = "default"
    /\ runPc = "run_until_complete"

Positions(e) == {i \in DOMAIN events : events[i] = e}

\* C27: once the event loop is created, every exit of run() has called
\* robot.client.disconnect() exactly once, after loop.close(); disconnect is
\* never called before the loop is closed; and when run_conversation has
\* constructed the handler, handler.close() has been awaited, after
\* handler.run, by the time run_conversation exits.
C27_ShutdownOrder ==
    /\ Cardinality(Positions("robot.client.disconnect")) <= 1
    /\ \A j \in Positions("robot.client.disconnect") :
           \E i \in Positions("loop.close") : i < j
    /\ (runPc \in {"returned", "raised"} /\ Positions("new_event_loop") # {}) =>
           /\ Cardinality(Positions("robot.client.disconnect")) = 1
           /\ Cardinality(Positions("loop.close")) = 1
    /\ (conv.pc \in {"returned", "raised"} /\ conv.handler) =>
           \E j \in Positions("handler.close") :
               \E i \in Positions("handler.run") : i < j

\* handler.run raised, handler.close() was awaited, run_conversation
\* re-raised and run() left by the exception after closing and disconnecting
C27_Witness ==
    /\ runPc = "raised"
    /\ conv.pc = "raised" /\ conv.handler /\ conv.pending = "Exception"
    /\ events = <<"new_event_loop", "GeminiLiveHandler", "handler.run",
                  "handler.close", "loop.close", "robot.client.disconnect">>

====
